---- MODULE Spec2Model ----
(***************************************************************************)
(* Model of the query-composition helper (src/helper/cosmosdb.helper.ts)   *)
(* and of the permission-gated list service                                *)
(* (src/services/cases.service.ts).                                        *)
(*                                                                         *)
(* JavaScript values are tagged records: [t |-> "undefined"],              *)
(* [t |-> "bool", v |-> TRUE], [t |-> "num", v |-> 12] and                 *)
(* [t |-> "str", v |-> <<"a", "b">>]; a JavaScript string is the sequence  *)
(* of its characters, so that split, replace, includes and template        *)
(* interpolation are computed on the text itself.                          *)
(***************************************************************************)
EXTENDS Integers, Sequences, FiniteSets, TLC

(***************************************************************************)
(* JavaScript values and the language primitives the code uses.            *)
(***************************************************************************)
JUndef == [t |-> "undefined"]
JBool(b) == [t |-> "bool", v |-> b]
JNum(n) == [t |-> "num", v |-> n]
JStr(s) == [t |-> "str", v |-> s]

\* x is falsy: what `x || d` and `if (x)` test.
Falsy(x) ==
  \/ x.t = "undefined"
  \/ x.t = "bool" /\ x.v = FALSE
  \/ x.t = "num" /\ x.v = 0
  \/ x.t = "str" /\ x.v = <<>>

\* x || d
OrDefault(x, d) == IF Falsy(x) THEN d ELSE x

\* A default parameter value: used when the argument is undefined.
ParamDefault(x, d) == IF x = JUndef THEN d ELSE x

Digits == <<"0", "1", "2", "3", "4", "5", "6", "7", "8", "9">>

RECURSIVE NatToString(_)
NatToString(n) ==
  IF n < 10 THEN <<Digits[n + 1]>>
  ELSE NatToString(n \div 10) \o <<Digits[(n % 10) + 1]>>

\* String(n) for an integer n.
NumToString(n) == IF n < 0 THEN <<"-">> \o NatToString(0 - n) ELSE NatToString(n)

(***************************************************************************)
(* The literal texts of the templates, character by character.             *)
(***************************************************************************)
\* the text documents
S_documents ==
  <<"d", "o", "c", "u", "m", "e", "n", "t", "s">>
\* the text submissions
S_submissions ==
  <<"s", "u", "b", "m", "i", "s", "s", "i", "o", "n", "s">>
\* the text value
S_value ==
  <<"v", "a", "l", "u", "e">>
\* the text AND
S_AND ==
  <<"A", "N", "D">>
\* the text undefined
S_undefined ==
  <<"u", "n", "d", "e", "f", "i", "n", "e", "d">>
\* the text true
S_true ==
  <<"t", "r", "u", "e">>
\* the text false
S_false ==
  <<"f", "a", "l", "s", "e">>
\* the text JOIN (SELECT VALUE t
S_JoinSelect ==
  <<"J", "O", "I", "N", " ", "(", "S", "E", "L", "E", "C", "T", " ", "V", "A", "L", "U", "E", " ", "t">>
\* the text  FROM t
S_FromT ==
  <<" ", "F", "R", "O", "M", " ", "t">>
\* the text  IN backend.
S_InBackend ==
  <<" ", "I", "N", " ", "b", "a", "c", "k", "e", "n", "d", ".">>
\* the text  WHERE t
S_WhereT ==
  <<" ", "W", "H", "E", "R", "E", " ", "t">>
\* the text  = '
S_EqQuote ==
  <<" ", "=", " ", "'">>
\* the text ')
S_QuoteParen ==
  <<"'", ")">>
\* the text AND NOT IS_DEFINED(backend
S_AndNotDefined ==
  <<"A", "N", "D", " ", "N", "O", "T", " ", "I", "S", "_", "D", "E", "F", "I", "N", "E", "D", "(", "b", "a", "c", "k", "e", "n", "d">>
\* the text AND backend
S_AndBackend ==
  <<"A", "N", "D", " ", "b", "a", "c", "k", "e", "n", "d">>
\* the text ["value"]
S_BracketValue ==
  <<"[", "\"", "v", "a", "l", "u", "e", "\"", "]">>
\* the text ORDER BY backend.
S_OrderByBackend ==
  <<"O", "R", "D", "E", "R", " ", "B", "Y", " ", "b", "a", "c", "k", "e", "n", "d", ".">>
\* the text backend.
S_Backend ==
  <<"b", "a", "c", "k", "e", "n", "d", ".">>
\* the text  ASC
S_Asc ==
  <<" ", "A", "S", "C">>
\* the text  DESC
S_Desc ==
  <<" ", "D", "E", "S", "C">>
\* the text , 
S_CommaSp ==
  <<",", " ">>
\* the text AND LOWER(ToString(backend)) LIKE "%
S_AndLowerToString ==
  <<"A", "N", "D", " ", "L", "O", "W", "E", "R", "(", "T", "o", "S", "t", "r", "i", "n", "g", "(", "b", "a", "c", "k", "e", "n", "d", ")", ")", " ", "L", "I", "K", "E", " ", "\"", "%">>
\* the text %"
S_PctDq ==
  <<"%", "\"">>
\* the text AND LOWER(backend.
S_AndLowerBackend ==
  <<"A", "N", "D", " ", "L", "O", "W", "E", "R", "(", "b", "a", "c", "k", "e", "n", "d", ".">>
\* the text ) LIKE '%
S_LikePct ==
  <<")", " ", "L", "I", "K", "E", " ", "'", "%">>
\* the text %' 
S_PctQuoteSp ==
  <<"%", "'", " ">>

\* `${x}`: the text a template literal renders for x.
TemplateStr(x) ==
  CASE x.t = "undefined" -> S_undefined
    [] x.t = "bool" -> IF x.v THEN S_true ELSE S_false
    [] x.t = "num" -> NumToString(x.v)
    [] OTHER -> x.v

\* s.indexOf(c) for a single character c, 1-based; 0 when c does not occur.
FirstIndexOf(s, c) ==
  IF \E i \in 1..Len(s) : s[i] = c
  THEN CHOOSE i \in 1..Len(s) : s[i] = c /\ \A j \in 1..(i - 1) : s[j] # c
  ELSE 0

\* s.replace(c, d) with string arguments: only the first occurrence is replaced.
ReplaceFirst(s, c, d) ==
  LET i == FirstIndexOf(s, c)
  IN IF i = 0 THEN s ELSE [s EXCEPT ![i] = d]

\* s.split(c) for a single character c: always at least one part.
RECURSIVE Split(_, _)
Split(s, c) ==
  LET i == FirstIndexOf(s, c)
  IN IF i = 0 THEN <<s>>
     ELSE <<SubSeq(s, 1, i - 1)>> \o Split(SubSeq(s, i + 1, Len(s)), c)

\* s.includes(sub)
Includes(s, sub) ==
  \E i \in 0..(Len(s) - Len(sub)) : SubSeq(s, i + 1, i + Len(sub)) = sub

\* parts.join(sep)
RECURSIVE Join(_, _)
Join(parts, sep) ==
  IF Len(parts) = 0 THEN <<>>
  ELSE IF Len(parts) = 1 THEN parts[1]
  ELSE parts[1] \o sep \o Join(Tail(parts), sep)

UpperCase == <<"A", "B", "D", "N", "R", "X">>
LowerCase == <<"a", "b", "d", "n", "r", "x">>

\* s.toLowerCase(), over the letters the inputs are drawn from.
ToLowerCase(s) ==
  [i \in 1..Len(s) |->
     IF \E k \in 1..Len(UpperCase) : UpperCase[k] = s[i]
     THEN LowerCase[CHOOSE k \in 1..Len(UpperCase) : UpperCase[k] = s[i]]
     ELSE s[i]]

\* arr.indexOf(x): zero-based, -1 when x is not an element (strict equality).
IndexOf(arr, x) ==
  IF \E i \in 1..Len(arr) : arr[i] = x
  THEN (CHOOSE i \in 1..Len(arr) : arr[i] = x /\ \A j \in 1..(i - 1) : arr[j] # x) - 1
  ELSE -1

(***************************************************************************)
(* CosmosDbHelper: the clause builders and the composer.                   *)
(***************************************************************************)

\* getFullSearchSql: one fragment per truthy search term.
RECURSIVE getFullSearchSql(_)
getFullSearchSql(searches) ==
  IF Len(searches) = 0 THEN <<>>
  ELSE (IF Falsy(Head(searches)) THEN <<>>
        ELSE <<S_AndLowerToString \o ToLowerCase(Head(searches).v) \o S_PctDq>>)
       \o getFullSearchSql(Tail(searches))

\* objectToString without the special case of the segment "value".
objectToString_NoValueCase(stringArr) ==
  LET parts == Split(stringArr, ".")
      F[i \in 0..Len(parts)] ==
        IF i = 0 THEN <<>> ELSE F[i - 1] \o (<<".">> \o parts[i])
  IN F[Len(parts)]

\* objectToString: the property-access expression of a dotted path.
objectToString(stringArr) ==
  LET parts == Split(stringArr, ".")
      F[i \in 0..Len(parts)] ==
        IF i = 0 THEN <<>>
        ELSE F[i - 1] \o (IF parts[i] = S_value THEN S_BracketValue
                          ELSE <<".">> \o parts[i])
  IN F[Len(parts)]

\* filterCondition: the operator symbol, undefined for any other condition.
filterCondition(cond) ==
  CASE cond = "equals" -> JStr(<<"=">>)
    [] cond = "greaterThan" -> JStr(<<">">>)
    [] cond = "smallerThan" -> JStr(<<"<">>)
    [] OTHER -> JUndef

\* The fragment of one criterion without the test for an undefined value.
FilterFragment_NoUndefinedTest(f, index) ==
  LET replaced == ReplaceFirst(f.field, ".", " ")
      parts == Split(replaced, " ")
      first == parts[1]
      second == IF Len(parts) >= 2 THEN JStr(parts[2]) ELSE JUndef
  IN IF first = S_documents \/ first = S_submissions
     THEN S_JoinSelect \o NumToString(index) \o S_FromT \o NumToString(index)
            \o S_InBackend \o first \o S_WhereT \o NumToString(index) \o <<".">>
            \o TemplateStr(second) \o S_EqQuote \o TemplateStr(f.value)
            \o S_QuoteParen
     ELSE S_AndBackend \o objectToString(f.field) \o <<" ">>
            \o TemplateStr(filterCondition(f.condition)) \o <<" ">>
            \o (IF f.value.t = "num" \/ f.value.t = "bool"
                THEN TemplateStr(f.value)
                ELSE <<"'">> \o TemplateStr(f.value) \o <<"'">>)

\* The body of getFilterSql's forEach: the fragment pushed for filters[index].
FilterFragment(f, index) ==
  LET replaced == ReplaceFirst(f.field, ".", " ")
      parts == Split(replaced, " ")
      first == parts[1]
      second == IF Len(parts) >= 2 THEN JStr(parts[2]) ELSE JUndef
  IN IF first = S_documents \/ first = S_submissions
     THEN S_JoinSelect \o NumToString(index) \o S_FromT \o NumToString(index)
            \o S_InBackend \o first \o S_WhereT \o NumToString(index) \o <<".">>
            \o TemplateStr(second) \o S_EqQuote \o TemplateStr(f.value)
            \o S_QuoteParen
     ELSE IF f.value = JUndef
     THEN S_AndNotDefined \o objectToString(f.field) \o <<")">>
     ELSE S_AndBackend \o objectToString(f.field) \o <<" ">>
            \o TemplateStr(filterCondition(f.condition)) \o <<" ">>
            \o (IF f.value.t = "num" \/ f.value.t = "bool"
                THEN TemplateStr(f.value)
                ELSE <<"'">> \o TemplateStr(f.value) \o <<"'">>)

\* getFilterSql: one fragment per criterion, in input order.
getFilterSql(filters) ==
  [i \in 1..Len(filters) |-> FilterFragment(filters[i], i - 1)]

\* The body of getSort's map: the fragment of sortArr[index].
SortFragment(item, index) ==
  CASE item.order = "ASC" ->
         IF index = 0 THEN S_OrderByBackend \o item.field \o S_Asc
         ELSE S_Backend \o item.field \o S_Asc
    [] item.order = "DESC" ->
         IF index = 0 THEN S_OrderByBackend \o item.field \o S_Desc
         ELSE S_Backend \o item.field \o S_Desc
    [] OTHER -> <<>>

\* getSort
getSort(sortArr) ==
  [i \in 1..Len(sortArr) |-> SortFragment(sortArr[i], i - 1)]

\* getSearchQuery
getSearchQuery(search) ==
  LET F[i \in 0..Len(search)] ==
        IF i = 0 THEN <<>>
        ELSE F[i - 1] \o S_AndLowerBackend \o search[i].field \o S_LikePct
               \o ToLowerCase(search[i].value) \o S_PctQuoteSp
  IN F[Len(search)]

\* getPropertiesQuery
getPropertiesQuery(properties) ==
  IF Len(properties) = 0 THEN <<"*">>
  ELSE LET F[i \in 0..Len(properties)] ==
             IF i = 0 THEN <<>>
             ELSE F[i - 1] \o S_Backend \o properties[i] \o S_CommaSp
           result == F[Len(properties)]
       IN SubSeq(result, 1, Len(result) - 2)

\* The composer's filter of the fragments: item.includes("AND").
KeepFragment(item) == Includes(item, S_AND)

\* getAllOptionsQuery
getAllOptionsQuery(sort, filter, search, searchFields, properties) ==
  [allProperties |-> getPropertiesQuery(properties),
   sorts |-> Join(getSort(sort), S_CommaSp),
   filters |-> Join(SelectSeq(getFilterSql(filter), KeepFragment), <<" ">>),
   searchFieldQuery |-> getSearchQuery(searchFields),
   searchObjectQuery |-> Join(getFullSearchSql(search), <<" ">>)]

(***************************************************************************)
(* The inputs the helper is exercised on.                                  *)
(***************************************************************************)
\* The longest criteria list (sort, filter, search, projection) drawn.
MaxCriteria == 2

\* Dotted field paths, as their lists of segments.
FieldPaths ==
  {<<<<"a">>>>,
   <<<<"a">>, S_value, <<"b">>>>,
   <<S_documents, <<"i", "d">>>>,
   <<S_submissions, <<"B", "R", "A", "N", "D">>>>}

\* The dotted string of a list of segments.
DotJoin(segs) == Join(segs, <<".">>)

\* FilterCondition, and a value outside the enumeration.
Conditions == {"equals", "greaterThan", "smallerThan", "contains"}

\* Filter values: a number, a boolean, a string, and an absent value.
FilterValues == {JNum(12), JBool(TRUE), JStr(<<"x">>), JUndef}

FilterCriteria ==
  {[field |-> DotJoin(p), condition |-> c, value |-> v] :
     p \in FieldPaths, c \in Conditions, v \in FilterValues}

\* SortOrder, and a value outside the enumeration.
SortOrders == {"ASC", "DESC", "RANDOM"}

SortCriteria == {[field |-> f, order |-> o] : f \in {<<"a">>, <<"b">>}, o \in SortOrders}

SearchTerms == {JStr(<<"A", "b">>), JStr(<<>>)}

FieldSearchCriteria == {[field |-> <<"a">>, value |-> <<"X", "b">>]}

ProjectionFields == {<<"a">>, <<"b">>}

\* The sequences over S of length at most n.
SeqsUpTo(S, n) == UNION {[1..k -> S] : k \in 0..n}

\* The argument lists of getAllOptionsQuery: one list varies, the others are
\* empty (the five clauses are built independently of each other).
QueryInputs ==
  LET none == [sort |-> <<>>, filter |-> <<>>, search |-> <<>>,
               searchFields |-> <<>>, properties |-> <<>>]
  IN {[none EXCEPT !.sort = s] : s \in SeqsUpTo(SortCriteria, MaxCriteria)}
     \cup {[none EXCEPT !.filter = f] : f \in SeqsUpTo(FilterCriteria, MaxCriteria)}
     \cup {[none EXCEPT !.search = s] : s \in SeqsUpTo(SearchTerms, MaxCriteria)}
     \cup {[none EXCEPT !.searchFields = s] :
             s \in SeqsUpTo(FieldSearchCriteria, MaxCriteria)}
     \cup {[none EXCEPT !.properties = p] :
             p \in SeqsUpTo(ProjectionFields, MaxCriteria)}

VARIABLES
  qin,      \* the arguments of the helper call
  called,   \* the helper method that ran, "none" before the call
  ret       \* its return value

(***************************************************************************)
(* CasesService.getCaseList and the two store calls it awaits.             *)
(***************************************************************************)
JArr(s) == [t |-> "array", v |-> s]

\* The most module entries in a permission record.
MaxModules == 2
\* The most rows in the content container and in a page a store hands out.
MaxRows == 3
\* The largest page limit a caller supplies.
MaxLimit == 2

\* The default of the pageLimit parameter.
DefaultPageLimit == 10

ModuleTypes == {"Invoice", "Waybill"}

\* The entries of a permission record's modules list.
ModuleEntries == {[type |-> m, active |-> a] : m \in ModuleTypes, a \in BOOLEAN}

\* What the permission query can return for (customerId, projectId): no row,
\* a record without a modules list, or a record with one.
PermissionRows ==
  {<<>>, <<[modules |-> JUndef]>>}
    \cup {<<[modules |-> JArr(ms)]>> : ms \in SeqsUpTo(ModuleEntries, MaxModules)}

\* Content rows: the k-th row of a sequence of module names has id k.
RowsOf(modules) == [k \in 1..Len(modules) |-> [id |-> k, module |-> modules[k]]]

RowSeqs == {RowsOf(ms) : ms \in SeqsUpTo(ModuleTypes, MaxRows)}

\* The failures the store client raises.
StoreErrors == {"NetworkError", "ThrottlingError"}

\* The cursors and page limits a caller passes; JUndef is an omitted argument.
CallerCursors == {JUndef, JStr(<<>>), JStr(<<"c", "1">>)}
CallerLimits == {JUndef} \cup {JNum(n) : n \in 1..MaxLimit}

\* The responses of fetchNext of a store about which nothing is assumed.
StoreResponses ==
  {[resources |-> rows, hasMoreResults |-> more, continuationToken |-> tok] :
     rows \in RowSeqs,
     more \in {JBool(TRUE), JBool(FALSE), JUndef},
     tok \in {JUndef, JStr(<<>>), JStr(<<"c", "2">>)}}

\* The cursor a paging store issues for the position after k rows.
Token(k) == <<"c">> \o NumToString(k)

\* The position a cursor stands for: the start for an empty or absent cursor.
Offset(rows, tok) ==
  IF Falsy(tok) THEN 0
  ELSE IF \E k \in 0..Len(rows) : Token(k) = tok.v
       THEN CHOOSE k \in 0..Len(rows) : Token(k) = tok.v
       ELSE 0

\* fetchNext of a store with deterministic paging over `rows`: the page after
\* the cursor's position, at most maxItemCount rows long, and the cursor of
\* the position after it when rows remain.
FakeStoreFetchNext(rows, options) ==
  LET pos == Offset(rows, options.continuationToken)
      last == IF pos + options.maxItemCount.v < Len(rows)
              THEN pos + options.maxItemCount.v ELSE Len(rows)
  IN [resources |-> SubSeq(rows, pos + 1, last),
      hasMoreResults |-> JBool(last < Len(rows)),
      continuationToken |-> IF last < Len(rows) THEN JStr(Token(last)) ELSE JUndef]

\* queryContainer: the resources of fetchAll.
queryContainer(resources) == resources

\* queryContainerNext: the page of fetchNext, its resources renamed result.
queryContainerNext(response) ==
  [result |-> response.resources,
   hasMoreResults |-> response.hasMoreResults,
   continuationToken |-> response.continuationToken]

\* getModulePermission's result when the active flag is not tested.
ActiveModuleTypes_AllModules(projectPermission) ==
  IF Len(projectPermission) = 0 THEN JUndef
  ELSE IF projectPermission[1].modules.t = "undefined" THEN JUndef
  ELSE JArr([i \in 1..Len(projectPermission[1].modules.v) |->
               projectPermission[1].modules.v[i].type])

\* getModulePermission after the query:
\* projectPermission?.[0]?.modules?.filter(active === true).map(type).
ActiveModuleTypes(projectPermission) ==
  IF Len(projectPermission) = 0 THEN JUndef
  ELSE IF projectPermission[1].modules.t = "undefined" THEN JUndef
  ELSE LET isActive(it) == it.active = TRUE
           kept == SelectSeq(projectPermission[1].modules.v, isActive)
       IN JArr([i \in 1..Len(kept) |-> kept[i].type])

\* The options of the content query when the first page is always asked for.
FeedOptionsOf_FirstPage(contToken, pageLimit) ==
  [maxItemCount |-> ParamDefault(pageLimit, JNum(DefaultPageLimit)),
   continuationToken |-> JStr(<<>>)]

\* The options getCaseList hands to queryContainerNext, from its contToken and
\* pageLimit parameters with their defaults.
FeedOptionsOf(contToken, pageLimit) ==
  [maxItemCount |-> ParamDefault(pageLimit, JNum(DefaultPageLimit)),
   continuationToken |-> ParamDefault(contToken, JStr(<<>>))]

\* The fixed catalog of options getCaseList returns.
CaseOptions ==
  <<"Invoice", "Waybill", "Delivery Note", "Order Confirmation", "Packing List">>

\* getCaseList's return statement with hasMoreResults taken from the rows kept.
CaseListReturn_HasMoreFromRows(resFilter, page) ==
  IF resFilter.t = "undefined" /\ Len(page.result) > 0
  THEN [kind |-> "error", error |-> "TypeError"]
  ELSE LET permitted(it) == IndexOf(resFilter.v, it.module) # -1
           kept == IF Len(page.result) = 0 THEN <<>>
                   ELSE SelectSeq(page.result, permitted)
       IN [kind |-> "value",
           result |-> kept,
           options |-> CaseOptions,
           hasMoreResults |-> JBool(Len(kept) > 0),
           continuationToken |-> OrDefault(page.continuationToken, JStr(<<>>))]

\* getCaseList's return statement: the rows whose module is in resFilter, and
\* the store's hasMoreResults and continuationToken with their defaults.
\* resFilter.indexOf is evaluated once per row: with resFilter undefined it
\* throws a TypeError as soon as the page has a row.
CaseListReturn(resFilter, page) ==
  IF resFilter.t = "undefined" /\ Len(page.result) > 0
  THEN [kind |-> "error", error |-> "TypeError"]
  ELSE LET permitted(it) == IndexOf(resFilter.v, it.module) # -1
           kept == IF Len(page.result) = 0 THEN <<>>
                   ELSE SelectSeq(page.result, permitted)
       IN [kind |-> "value",
           result |-> kept,
           options |-> CaseOptions,
           hasMoreResults |-> OrDefault(page.hasMoreResults, JBool(FALSE)),
           continuationToken |-> OrDefault(page.continuationToken, JStr(<<>>))]

VARIABLES
  permission,    \* the rows of the Project container for (customerId, projectId)
  storeRows,     \* the rows of the content container of a paging store
  pc,            \* where the invocation of getCaseList stands
  args,          \* the contToken and pageLimit the caller supplied
  resFilter,     \* getCaseList's resFilter
  permCalls,     \* permission queries issued by the invocation
  contentCalls,  \* content queries issued by the invocation
  storeArgs,     \* the options the content query was issued with
  storeResp,     \* the response of fetchNext
  raised,        \* the failure each store call raised, "none" if none
  outcome,       \* what the invocation returned or threw
  fetched,       \* every row the content store has handed out, in order
  callNo         \* invocations made so far

lvars == <<permission, storeRows, pc, args, resFilter, permCalls, contentCalls,
           storeArgs, storeResp, raised, outcome, fetched, callNo>>

vars == <<qin, called, ret, permission, storeRows, pc, args, resFilter,
          permCalls, contentCalls, storeArgs, storeResp, raised, outcome,
          fetched, callNo>>

NoArgs == [contToken |-> JUndef, pageLimit |-> JUndef]
NoOptions == [maxItemCount |-> JUndef, continuationToken |-> JUndef]
NoResponse == [resources |-> <<>>, hasMoreResults |-> JUndef, continuationToken |-> JUndef]
NoFailure == [permission |-> "none", content |-> "none"]

\* No helper call is in progress.
QIdle ==
  /\ qin = [sort |-> <<>>, filter |-> <<>>, search |-> <<>>,
            searchFields |-> <<>>, properties |-> <<>>]
  /\ called = "none"
  /\ ret = <<>>

\* The service before its first invocation.
LIdle ==
  /\ pc = "idle"
  /\ args = NoArgs
  /\ resFilter = JUndef
  /\ permCalls = 0
  /\ contentCalls = 0
  /\ storeArgs = NoOptions
  /\ storeResp = NoResponse
  /\ raised = NoFailure
  /\ outcome = [kind |-> "none"]
  /\ fetched = <<>>
  /\ callNo = 0

\* getCaseList up to its first await: the permission query is issued.
Invoke(contToken, pageLimit) ==
  /\ args' = [contToken |-> contToken, pageLimit |-> pageLimit]
  /\ pc' = "awaitPermission"
  /\ permCalls' = 1
  /\ contentCalls' = 0
  /\ resFilter' = JUndef
  /\ storeArgs' = NoOptions
  /\ storeResp' = NoResponse
  /\ raised' = NoFailure
  /\ outcome' = [kind |-> "none"]
  /\ callNo' = callNo + 1
  /\ UNCHANGED <<qin, called, ret, permission, storeRows, fetched>>

\* A caller invokes getCaseList with any cursor and page limit.
Call(contToken, pageLimit) ==
  /\ pc = "idle"
  /\ Invoke(contToken, pageLimit)

\* The permission query fails, the failure is caught and no module is permitted.
PermissionReject_Swallowed(e) ==
  /\ pc = "awaitPermission"
  /\ raised' = [raised EXCEPT !.permission = e]
  /\ resFilter' = JArr(<<>>)
  /\ storeArgs' = FeedOptionsOf(args.contToken, args.pageLimit)
  /\ contentCalls' = contentCalls + 1
  /\ pc' = "awaitContent"
  /\ UNCHANGED <<qin, called, ret, permission, storeRows, args, permCalls,
                 storeResp, outcome, fetched, callNo>>

\* The permission query fails: the await throws and nothing catches it.
PermissionReject(e) ==
  /\ pc = "awaitPermission"
  /\ raised' = [raised EXCEPT !.permission = e]
  /\ outcome' = [kind |-> "error", error |-> e]
  /\ pc' = "threw"
  /\ UNCHANGED <<qin, called, ret, permission, storeRows, args, resFilter,
                 permCalls, contentCalls, storeArgs, storeResp, fetched, callNo>>

\* The permission query answers: resFilter is computed, the clauses are
\* composed (the content query is a fixed text and uses none of them), and the
\* content query is issued with the caller's page request.
PermissionResolve ==
  /\ pc = "awaitPermission"
  /\ resFilter' = ActiveModuleTypes(queryContainer(permission))
  /\ storeArgs' = FeedOptionsOf(args.contToken, args.pageLimit)
  /\ contentCalls' = contentCalls + 1
  /\ pc' = "awaitContent"
  /\ UNCHANGED <<qin, called, ret, permission, storeRows, args, permCalls,
                 storeResp, raised, outcome, fetched, callNo>>

\* The content query fails: the await throws and nothing catches it.
ContentReject(e) ==
  /\ pc = "awaitContent"
  /\ raised' = [raised EXCEPT !.content = e]
  /\ outcome' = [kind |-> "error", error |-> e]
  /\ pc' = "threw"
  /\ UNCHANGED <<qin, called, ret, permission, storeRows, args, resFilter,
                 permCalls, contentCalls, storeArgs, storeResp, fetched, callNo>>

\* The content query answers with `response`: the page is filtered by
\* resFilter and returned, or the filter throws.
ContentResolve(response) ==
  /\ pc = "awaitContent"
  /\ storeResp' = response
  /\ fetched' = fetched \o response.resources
  /\ outcome' = CaseListReturn(resFilter, queryContainerNext(response))
  /\ pc' = IF outcome'.kind = "value" THEN "returned" ELSE "threw"
  /\ UNCHANGED <<qin, called, ret, permission, storeRows, args, resFilter,
                 permCalls, contentCalls, storeArgs, raised, callNo>>

\* One invocation against a store about which nothing is assumed.
Init ==
  /\ QIdle
  /\ LIdle
  /\ permission \in PermissionRows
  /\ storeRows = <<>>

Next ==
  \/ \E c \in CallerCursors, l \in CallerLimits : Call(c, l)
  \/ PermissionResolve
  \/ \E e \in StoreErrors : PermissionReject(e)
  \/ \E response \in StoreResponses : ContentResolve(response)
  \/ \E e \in StoreErrors : ContentReject(e)

Spec == Init /\ [][Next]_vars

\* The first call of a paging sequence: the empty cursor.
FirstPage(pageLimit) ==
  /\ pc = "idle"
  /\ Invoke(JStr(<<>>), pageLimit)

\* A later call of a paging sequence: the caller feeds the nextCursor of the
\* page it was returned, as long as that page reported more results.
NextPage(pageLimit) ==
  /\ pc = "returned"
  /\ outcome.hasMoreResults = JBool(TRUE)
  /\ Invoke(outcome.continuationToken, pageLimit)

\* The content query answers as the paging store does.
PagedContentResolve ==
  ContentResolve(FakeStoreFetchNext(storeRows, storeArgs))

\* A sequence of invocations against a store with deterministic paging.
PagingInit ==
  /\ QIdle
  /\ LIdle
  /\ permission \in PermissionRows
  /\ storeRows \in RowSeqs

PagingNext ==
  \/ \E l \in CallerLimits : FirstPage(l)
  \/ \E l \in CallerLimits : NextPage(l)
  \/ PermissionResolve
  \/ PagedContentResolve

SpecPaging == PagingInit /\ [][PagingNext]_vars

(***************************************************************************)
(* Calls of the helper's public methods on the drawn inputs.               *)
(***************************************************************************)
QInit ==
  /\ qin \in QueryInputs
  /\ called = "none"
  /\ ret = <<>>
  /\ LIdle
  /\ permission = <<>>
  /\ storeRows = <<>>

CallGetFilterSql ==
  /\ called = "none"
  /\ called' = "getFilterSql"
  /\ ret' = getFilterSql(qin.filter)
  /\ UNCHANGED qin
  /\ UNCHANGED lvars

CallGetSort ==
  /\ called = "none"
  /\ called' = "getSort"
  /\ ret' = getSort(qin.sort)
  /\ UNCHANGED qin
  /\ UNCHANGED lvars

CallGetAllOptionsQuery ==
  /\ called = "none"
  /\ called' = "getAllOptionsQuery"
  /\ ret' = getAllOptionsQuery(qin.sort, qin.filter, qin.search,
                               qin.searchFields, qin.properties)
  /\ UNCHANGED qin
  /\ UNCHANGED lvars

QNext == CallGetFilterSql \/ CallGetSort \/ CallGetAllOptionsQuery

SpecQuery == QInit /\ [][QNext]_vars

(***************************************************************************)
(* Properties of the clause builders and the composer.                     *)
(***************************************************************************)
ReservedCollections == {S_documents, S_submissions}

RecognizedConditions == {"equals", "greaterThan", "smallerThan"}

\* The property-access expression of a list of segments: `.segment` for each
\* segment, `["value"]` for the segment "value".
RECURSIVE ResolvedPath(_)
ResolvedPath(segs) ==
  IF Len(segs) = 0 THEN <<>>
  ELSE (IF Head(segs) = S_value THEN S_BracketValue ELSE <<".">> \o Head(segs))
       \o ResolvedPath(Tail(segs))

\* The dialect symbol of a recognized comparison operator.
OperatorSymbol(cond) ==
  CASE cond = "equals" -> <<"=">>
    [] cond = "greaterThan" -> <<">">>
    [] cond = "smallerThan" -> <<"<">>

\* A defined value as the query text shows it: numbers and booleans bare,
\* anything else between single quotes.
RenderedValue(v) ==
  CASE v.t = "num" -> NumToString(v.v)
    [] v.t = "bool" -> (IF v.v THEN S_true ELSE S_false)
    [] OTHER -> <<"'">> \o v.v \o <<"'">>

StartsWith(s, prefix) ==
  Len(s) >= Len(prefix) /\ SubSeq(s, 1, Len(prefix)) = prefix

EndsWith(s, suffix) ==
  Len(s) >= Len(suffix) /\ SubSeq(s, Len(s) - Len(suffix) + 1, Len(s)) = suffix

\* C6: getFilterSql returns one fragment per criterion, and for a criterion
\* whose first path segment is neither "documents" nor "submissions", whose
\* value is defined and whose operator is equals, greaterThan or smallerThan,
\* the fragment is `AND backend<resolvedPath> <symbol> <renderedValue>`.
C6_ComparisonFragment ==
  called = "getFilterSql" =>
    /\ Len(ret) = Len(qin.filter)
    /\ \A i \in 1..Len(qin.filter) : \A p \in FieldPaths :
         LET f == qin.filter[i]
         IN (/\ f.field = DotJoin(p)
             /\ p[1] \notin ReservedCollections
             /\ f.value # JUndef
             /\ f.condition \in RecognizedConditions)
            => ret[i] = S_AndBackend \o ResolvedPath(p) \o <<" ">>
                          \o OperatorSymbol(f.condition) \o <<" ">>
                          \o RenderedValue(f.value)

\* A comparison on the path a.value.b is encoded as the second fragment.
C6_Witness ==
  /\ called = "getFilterSql"
  /\ Len(qin.filter) = 2
  /\ qin.filter[2] = [field |-> DotJoin(<<<<"a">>, S_value, <<"b">>>>),
                      condition |-> "smallerThan", value |-> JStr(<<"x">>)]
  /\ qin.filter[1].value = JNum(12)
  /\ qin.filter[1].field = <<"a">>

\* C7 (as amended): for a criterion with an absent value whose first path
\* segment is neither "documents" nor "submissions", the fragment is exactly
\* `AND NOT IS_DEFINED(backend<resolvedPath>)`.
C7_AbsentValueFragment ==
  called = "getFilterSql" =>
    \A i \in 1..Len(qin.filter) : \A p \in FieldPaths :
      LET f == qin.filter[i]
      IN (f.field = DotJoin(p) /\ f.value = JUndef /\ p[1] \notin ReservedCollections)
         => ret[i] = S_AndNotDefined \o ResolvedPath(p) \o <<")">>

\* An absent value on the path a.value.b has been encoded.
C7_Witness ==
  /\ called = "getFilterSql"
  /\ \E i \in 1..Len(qin.filter) :
       /\ qin.filter[i].field = DotJoin(<<<<"a">>, S_value, <<"b">>>>)
       /\ qin.filter[i].value = JUndef

\* C7 (as claimed): for every criterion with an absent value, on any field
\* path, the fragment is `AND NOT IS_DEFINED(backend<resolvedPath>)`.
C7_AbsentValueAnyPath ==
  called = "getFilterSql" =>
    \A i \in 1..Len(qin.filter) : \A p \in FieldPaths :
      LET f == qin.filter[i]
      IN (f.field = DotJoin(p) /\ f.value = JUndef)
         => ret[i] = S_AndNotDefined \o ResolvedPath(p) \o <<")">>

\* C8: a criterion that reaches the condition encoder (first path segment
\* not reserved, value defined) with an operator other than equals,
\* greaterThan or smallerThan has an undefined encoding and produces no
\* fragment: getFilterSql returns fragments for the other criteria only, and
\* the composer's filter clause joins only fragments of the other criteria.
C8_UnrecognizedOperatorOmitted ==
  LET omitted == {i \in 1..Len(qin.filter) :
                    /\ qin.filter[i].condition \notin RecognizedConditions
                    /\ qin.filter[i].value # JUndef
                    /\ \A r \in ReservedCollections :
                         ~StartsWith(qin.filter[i].field, r \o <<".">>)}
      fragments == getFilterSql(qin.filter)
      others == SelectSeq([i \in 1..Len(fragments) |->
                             IF i \in omitted THEN <<>> ELSE fragments[i]],
                          KeepFragment)
  IN /\ \A i \in omitted : filterCondition(qin.filter[i].condition) = JUndef
     /\ called = "getFilterSql" => Len(ret) = Len(qin.filter) - Cardinality(omitted)
     /\ called = "getAllOptionsQuery" => ret.filters = Join(others, <<" ">>)

\* C9: only the first fragment of getSort carries `ORDER BY`, every later one
\* is a bare `backend.<field> ASC|DESC` term, and the composer's join of a
\* non-empty list starts with `ORDER BY` and has no empty term.
C9_SortClauseComplete ==
  LET orderBy == <<"O", "R", "D", "E", "R", " ", "B", "Y">>
  IN /\ called = "getSort" =>
          \A i \in 1..Len(qin.sort) :
            /\ Includes(ret[i], orderBy) <=> i = 1
            /\ \E d \in {S_Asc, S_Desc} :
                 ret[i] = (IF i = 1 THEN S_OrderByBackend ELSE S_Backend)
                            \o qin.sort[i].field \o d
     /\ (called = "getAllOptionsQuery" /\ Len(qin.sort) > 0) =>
          /\ StartsWith(ret.sorts, orderBy)
          /\ ~StartsWith(ret.sorts, S_CommaSp)
          /\ ~EndsWith(ret.sorts, S_CommaSp)
          /\ ~Includes(ret.sorts, S_CommaSp \o S_CommaSp)

\* C10: the composer's filter clause is the single-space join, in input
\* order, of exactly the fragments of getFilterSql that start with `AND`;
\* every JOIN fragment is discarded.
C10_JoinFragmentsDiscarded ==
  called = "getAllOptionsQuery" =>
    LET fragments == getFilterSql(qin.filter)
        whereStyle(item) == StartsWith(item, S_AND)
    IN ret.filters = Join(SelectSeq(fragments, whereStyle), <<" ">>)

(***************************************************************************)
(* Properties of getCaseList.                                              *)
(***************************************************************************)
\* The permission query returned a record that has a modules list.
HasModulesList == Len(permission) > 0 /\ permission[1].modules.t = "array"

\* The module types the permission record marks active; none when there is
\* no record or no modules list.
PermittedSet ==
  IF HasModulesList
  THEN {permission[1].modules.v[i].type :
          i \in {j \in 1..Len(permission[1].modules.v) :
                   permission[1].modules.v[j].active}}
  ELSE {}

\* Both store calls of the invocation were answered without a failure.
PageDelivered ==
  /\ pc \in {"returned", "threw"}
  /\ contentCalls = 1
  /\ raised = NoFailure

\* C1: when the permission record has a modules list and the store delivers a
\* page, getCaseList returns, and its rows are exactly the rows of the page
\* whose module is marked active in the record, in the page's order; with no
\* active module it returns zero rows.
C1_RowsFilteredByPermission ==
  (PageDelivered /\ HasModulesList) =>
    LET permitted(row) == row.module \in PermittedSet
    IN /\ pc = "returned"
       /\ outcome.result = SelectSeq(storeResp.resources, permitted)
       /\ PermittedSet = {} => outcome.result = <<>>

\* A page of three rows was filtered down to its first and third row, by a
\* record with an active and an inactive module.
C1_Witness ==
  /\ pc = "returned"
  /\ HasModulesList
  /\ Len(storeResp.resources) = 3
  /\ Len(outcome.result) = 2
  /\ outcome.result[2].id = 3
  /\ \E i \in 1..Len(permission[1].modules.v) : ~permission[1].modules.v[i].active

\* C2: when no permission record exists (no row, or a record without a
\* modules list) and the store delivers a page, getCaseList returns
\* successfully, with zero rows.
C2_AbsentPermissionYieldsEmptyPage ==
  (PageDelivered /\ ~HasModulesList) =>
    /\ pc = "returned"
    /\ outcome.kind = "value"
    /\ outcome.result = <<>>

\* The smaller of two numbers.
Smaller(a, b) == IF a < b THEN a ELSE b

\* C3: in a sequence of calls that starts with the empty cursor and feeds each
\* returned nextCursor into the next call, the store receives the caller's
\* cursor unchanged, the pages fetched so far are the store's rows from the
\* first on with none skipped and none repeated, every returned call has
\* advanced by at least one row while rows remained, and hasMore = false is
\* returned exactly when the last row has been fetched.
C3_PagesContinue ==
  /\ contentCalls = 1 => storeArgs.continuationToken = args.contToken
  /\ (callNo > 1 /\ contentCalls = 1) =>
       storeArgs.continuationToken = JStr(Token(Len(fetched) - Len(storeResp.resources)))
  /\ Len(fetched) <= Len(storeRows)
  /\ fetched = SubSeq(storeRows, 1, Len(fetched))
  /\ pc = "returned" =>
       /\ Len(fetched) >= Smaller(callNo, Len(storeRows))
       /\ outcome.hasMoreResults = JBool(Len(fetched) < Len(storeRows))
       /\ outcome.hasMoreResults = JBool(TRUE) =>
            outcome.continuationToken = JStr(Token(Len(fetched)))

\* A third call has returned the last row of a store of three rows.
C3_Witness ==
  /\ pc = "returned"
  /\ callNo = 3
  /\ Len(storeRows) = 3
  /\ fetched = storeRows
  /\ outcome.hasMoreResults = JBool(FALSE)
  /\ storeResp.resources = <<storeRows[3]>>

\* C4: the store receives the caller's pageLimit and cursor unchanged (an
\* omitted cursor as the empty one), and a returning call returns the store's
\* hasMore and nextCursor as reported, false and the empty string standing
\* for absent ones, whatever the permission filter did to the rows.
C4_PageMetadataVerbatim ==
  /\ contentCalls = 1 =>
       /\ args.pageLimit # JUndef => storeArgs.maxItemCount = args.pageLimit
       /\ args.contToken # JUndef => storeArgs.continuationToken = args.contToken
       /\ args.contToken = JUndef => storeArgs.continuationToken = JStr(<<>>)
  /\ pc = "returned" =>
       /\ outcome.hasMoreResults =
            (IF storeResp.hasMoreResults = JUndef THEN JBool(FALSE)
             ELSE storeResp.hasMoreResults)
       /\ outcome.continuationToken =
            (IF storeResp.continuationToken = JUndef THEN JStr(<<>>)
             ELSE storeResp.continuationToken)

\* A call returned a page from which the filter removed every row, while the
\* store reported more results and a cursor.
C4_Witness ==
  /\ pc = "returned"
  /\ args.pageLimit = JNum(MaxLimit)
  /\ args.contToken = JStr(<<"c", "1">>)
  /\ Len(storeResp.resources) > 0
  /\ outcome.result = <<>>
  /\ storeResp.hasMoreResults = JBool(TRUE)
  /\ outcome.continuationToken = JStr(<<"c", "2">>)

\* C5: an invocation issues each store call at most once, the content query
\* only after the permission query was answered, and returns only after both;
\* a failure of either call ends the invocation with that very failure, and
\* after a permission failure the content query is never issued.
C5_TerminalOnFirstFailure ==
  /\ permCalls <= 1
  /\ contentCalls <= 1
  /\ contentCalls = 1 => (permCalls = 1 /\ raised.permission = "none")
  /\ pc = "awaitPermission" => contentCalls = 0
  /\ raised.permission # "none" =>
       /\ pc = "threw"
       /\ outcome = [kind |-> "error", error |-> raised.permission]
       /\ contentCalls = 0
  /\ raised.content # "none" =>
       /\ pc = "threw"
       /\ outcome = [kind |-> "error", error |-> raised.content]
  /\ pc = "returned" =>
       (permCalls = 1 /\ contentCalls = 1 /\ raised = NoFailure)

\* The permission query failed and the invocation threw its failure.
C5_Witness ==
  /\ pc = "threw"
  /\ raised.permission = "ThrottlingError"
  /\ outcome.error = "ThrottlingError"

====
